---- MODULE Spec2Model ----
(***************************************************************************)
(* Model of the namespacedkey repository:                                  *)
(*   crates/namespacedkey_core/src/lib.rs  Identifier<T> (interned)        *)
(*   src/namespaced_key.rs                 NamespacedKey (owned strings)   *)
(*   src/util/check_string.rs              check_string                    *)
(*   src/util/make_underline_message.rs    make_underline_message          *)
(*                                                                         *)
(* A char is its Unicode code point, a string is a sequence of chars.      *)
(* Byte offsets are those of the UTF-8 encoding, as str::char_indices      *)
(* reports them.                                                           *)
(***************************************************************************)
EXTENDS Integers, Sequences, FiniteSets, TLC

----------------------------------------------------------------------------
(* Bounds of the model *)

\* longest input string of the function-level specification
MaxLen == 4
\* longest namespace / value text of the ordering specification
MaxOrdLen == 2
\* number of threads of the concurrent specification
NumThreads == 2
\* longest input string of the diagnostic specification
MaxUlLen == 3
\* longest list of bad offsets of the diagnostic specification
MaxBad == 2

----------------------------------------------------------------------------
(* Characters *)

CH_COLON == 58
CH_SPACE == 32
CH_CARET == 94
CH_NEWLINE == 10
\* the characters input strings are drawn from: 'a', '/', ':' and U+0301
\* COMBINING ACUTE ACCENT (two bytes in UTF-8, display width 0)
Chars == {97, 47, 58, 769}

\* the characters the texts of the ordering specification are drawn from
OrdChars == {97, 98}

\* all strings over alphabet cs of length at most n
StrOver(cs, n) == UNION {[1..k -> cs] : k \in 0..n}

Take(s, k) == SubSeq(s, 1, k)

Drop(s, k) == SubSeq(s, k + 1, Len(s))

\* char::len_utf8
Utf8Len(c) == IF c < 128 THEN 1 ELSE IF c < 2048 THEN 2 ELSE IF c < 65536 THEN 3 ELSE 4

\* the UTF-8 encoding of one char
Utf8Char(c) ==
    IF c < 128 THEN <<c>>
    ELSE IF c < 2048 THEN <<192 + (c \div 64), 128 + (c % 64)>>
    ELSE IF c < 65536 THEN <<224 + (c \div 4096), 128 + ((c \div 64) % 64), 128 + (c % 64)>>
    ELSE <<240 + (c \div 262144), 128 + ((c \div 4096) % 64),
           128 + ((c \div 64) % 64), 128 + (c % 64)>>

RECURSIVE Utf8(_)
\* the bytes of a string
Utf8(s) == IF s = <<>> THEN <<>> ELSE Utf8Char(Head(s)) \o Utf8(Tail(s))

RECURSIVE ByteOffset(_, _)
\* byte offset of the i-th char (1-based) of s
ByteOffset(s, i) == IF i <= 1 THEN 0 ELSE ByteOffset(s, i - 1) + Utf8Len(s[i - 1])

\* a scan that pairs each char with its char index, not its byte offset
CharIndicesByChar(s) == [i \in 1..Len(s) |-> <<i - 1, s[i]>>]

\* str::char_indices: the (byte offset, char) pairs of s in scan order
CharIndices(s) == [i \in 1..Len(s) |-> <<ByteOffset(s, i), s[i]>>]

----------------------------------------------------------------------------
(* crates/namespacedkey_core/src/lib.rs : constants and allowlists *)

\* "unspecified"
DEFAULT_NAMESPACE == <<117, 110, 115, 112, 101, 99, 105, 102, 105, 101, 100>>

DEFAULT_SEPARATOR == CH_COLON

\* "0123456789abcdefghijklmnopqrstuvwxyz_-."
legal_namespace_chars == (48..57) \cup (97..122) \cup {95, 45, 46}

\* legal_value_chars with the delimiter added to the allowlist
legal_value_chars_with_colon == (48..57) \cup (97..122) \cup {95, 45, 46, 47, 58}

\* "0123456789abcdefghijklmnopqrstuvwxyz_-./"
legal_value_chars == (48..57) \cup (97..122) \cup {95, 45, 46, 47}

\* the .char_indices().filter(not in allowlist).collect() of Identifier::new
BadChars(s, allow) == SelectSeq(CharIndices(s), LAMBDA p : p[2] \notin allow)

----------------------------------------------------------------------------
(* The namespace intern table (Intern<String>): a handle is the index of   *)
(* the allocation, the table maps a handle to the text it holds.           *)

\* Intern::new that allocates on every call, without looking the text up
InternNewAlwaysAllocates(table, s) ==
    [handle |-> Len(table) + 1, table |-> Append(table, s)]

\* Intern::new(ns): look the text up, allocate only when it is absent
InternNew(table, s) ==
    IF \E i \in DOMAIN table : table[i] = s
    THEN [handle |-> CHOOSE i \in DOMAIN table : table[i] = s, table |-> table]
    ELSE [handle |-> Len(table) + 1, table |-> Append(table, s)]

\* Intern::as_ref / Deref: the text behind a handle
InternText(table, h) == table[h]

----------------------------------------------------------------------------
(* Identifier::new, split in its thread-local part (validation, default    *)
(* namespace) and its access to the shared intern table.                   *)

ErrEmptyValue == [tag |-> "EmptyValue"]

ErrIllegalNs(ns, bad) == [tag |-> "IllegalCharsInNamespace", text |-> ns, bad |-> bad]

ErrIllegalValue(v, bad) == [tag |-> "IllegalCharsInValue", text |-> v, bad |-> bad]

\* validation that looks at the namespace before the empty-value test
ValidateNsFirst(namespace, value) ==
    IF BadChars(namespace, legal_namespace_chars) # <<>>
    THEN ErrIllegalNs(namespace, BadChars(namespace, legal_namespace_chars))
    ELSE IF value = <<>> THEN ErrEmptyValue
    ELSE IF BadChars(value, legal_value_chars) # <<>>
    THEN ErrIllegalValue(value, BadChars(value, legal_value_chars))
    ELSE [tag |-> "Valid",
          ns |-> IF namespace = <<>> THEN DEFAULT_NAMESPACE ELSE namespace,
          value |-> value]

\* validation that keeps an empty namespace instead of the default
ValidateNoDefault(namespace, value) ==
    IF value = <<>> THEN ErrEmptyValue
    ELSE IF BadChars(namespace, legal_namespace_chars) # <<>>
    THEN ErrIllegalNs(namespace, BadChars(namespace, legal_namespace_chars))
    ELSE IF BadChars(value, legal_value_chars) # <<>>
    THEN ErrIllegalValue(value, BadChars(value, legal_value_chars))
    ELSE [tag |-> "Valid", ns |-> namespace, value |-> value]

\* lib.rs 133-162: the checks of Identifier::new up to the choice of ns
Validate(namespace, value) ==
    IF value = <<>> THEN ErrEmptyValue
    ELSE LET bad_ns == BadChars(namespace, legal_namespace_chars) IN
         IF bad_ns # <<>> THEN ErrIllegalNs(namespace, bad_ns)
         ELSE LET bad_val == BadChars(value, legal_value_chars) IN
              IF bad_val # <<>> THEN ErrIllegalValue(value, bad_val)
              ELSE [tag |-> "Valid",
                    ns |-> IF namespace = <<>> THEN DEFAULT_NAMESPACE ELSE namespace,
                    value |-> value]

\* lib.rs 164-168: the Identifier built around an intern handle
MkIdentifier(h, value, kind) == [namespace |-> h, value |-> value, kind |-> kind]

\* Identifier::new that interns the namespace before it validates
IdentifierNewInternsFirst(table, namespace, value, kind) ==
    LET i == InternNew(table, IF namespace = <<>> THEN DEFAULT_NAMESPACE ELSE namespace)
        v == Validate(namespace, value)
    IN IF v.tag # "Valid" THEN [res |-> v, table |-> i.table]
       ELSE [res |-> [tag |-> "Ok", id |-> MkIdentifier(i.handle, v.value, kind)],
             table |-> i.table]

\* Identifier::<kind>::new(namespace, value) on intern table `table`:
\* the result and the table after the call
IdentifierNew(table, namespace, value, kind) ==
    LET v == Validate(namespace, value) IN
    IF v.tag # "Valid" THEN [res |-> v, table |-> table]
    ELSE LET i == InternNew(table, v.ns) IN
         [res |-> [tag |-> "Ok", id |-> MkIdentifier(i.handle, v.value, kind)],
          table |-> i.table]

\* str::splitn(2, sep): at most two parts, split at the first sep
SplitN2(s, sep) ==
    IF \E i \in 1..Len(s) : s[i] = sep
    THEN LET i == CHOOSE j \in 1..Len(s) :
                     s[j] = sep /\ \A k \in 1..(j - 1) : s[k] # sep
         IN <<Take(s, i - 1), Drop(s, i)>>
    ELSE <<s>>

\* the (namespace, value) candidates Identifier::parse hands to new,
\* without the before == after test
ParseCandidatesNoDefault(s) ==
    LET parts == SplitN2(s, DEFAULT_SEPARATOR)
        before == parts[1]
        after == IF Len(parts) >= 2 THEN parts[2] ELSE before
    IN <<before, after>>

\* lib.rs 173-181: the (namespace, value) candidates Identifier::parse
\* hands to new
ParseCandidates(s) ==
    LET parts == SplitN2(s, DEFAULT_SEPARATOR)
        before == parts[1]
        after == IF Len(parts) >= 2 THEN parts[2] ELSE before
    IN IF before = after THEN <<(<<>>), before>> ELSE <<before, after>>

\* Identifier::<kind>::parse(s)
IdentifierParse(table, s, kind) ==
    LET c == ParseCandidates(s) IN IdentifierNew(table, c[1], c[2], kind)

\* impl Display for Identifier: "{namespace}{DEFAULT_SEPARATOR}{value}"
IdentifierToString(table, id) ==
    InternText(table, id.namespace) \o <<DEFAULT_SEPARATOR>> \o id.value

\* impl PartialEq for Identifier: handle equality and value equality
IdentifierEq(a, b) == a.namespace = b.namespace /\ a.value = b.value

\* Identifier::cast::<U>
IdentifierCast(id, kind) == MkIdentifier(id.namespace, id.value, kind)

\* Identifier::erase
IdentifierErase(id) == IdentifierCast(id, "unit")

\* impl Clone for Identifier
IdentifierClone(id) == MkIdentifier(id.namespace, id.value, id.kind)

----------------------------------------------------------------------------
(* Ordering *)

RECURSIVE BytesCmp(_, _)
\* lexicographic comparison of two byte sequences (impl Ord for [u8])
BytesCmp(x, y) ==
    IF x = <<>> /\ y = <<>> THEN "Equal"
    ELSE IF x = <<>> THEN "Less"
    ELSE IF y = <<>> THEN "Greater"
    ELSE IF Head(x) < Head(y) THEN "Less"
    ELSE IF Head(x) > Head(y) THEN "Greater"
    ELSE BytesCmp(Tail(x), Tail(y))

\* impl Ord for str: comparison of the UTF-8 bytes
StrCmp(x, y) == BytesCmp(Utf8(x), Utf8(y))

\* a comparison of the handles themselves (allocation order), not of the texts
IdentifierCmpByHandle(table, x, y) ==
    IF x.namespace < y.namespace THEN "Less"
    ELSE IF x.namespace > y.namespace THEN "Greater"
    ELSE StrCmp(x.value, y.value)

\* impl Ord for Identifier: namespace texts first, then values
IdentifierCmp(table, x, y) ==
    LET c == StrCmp(InternText(table, x.namespace), InternText(table, y.namespace))
    IN IF c = "Equal" THEN StrCmp(x.value, y.value) ELSE c

----------------------------------------------------------------------------
(* src/constants/valid_characters.rs, src/util/check_string.rs *)

\* the namespace allowlist with the path separator let in
VALID_NAMESPACE_CHARACTERS_WITH_SLASH == (48..57) \cup (97..122) \cup {95, 45, 46, 47}

VALID_NAMESPACE_CHARACTERS == (48..57) \cup (97..122) \cup {95, 45, 46}

VALID_PATH_CHARACTERS == (48..57) \cup (97..122) \cup {95, 45, 46, 47}

None == [some |-> FALSE]

Some(v) == [some |-> TRUE, v |-> v]

\* check_string.rs 4-8: the byte offsets of the chars outside the allowlist
IllegalIndices(string, allowlist) ==
    LET bad == BadChars(string, allowlist)
    IN [i \in 1..Len(bad) |-> bad[i][1]]

\* check_string(string, allowlist)
check_string(string, allowlist) ==
    LET illegal_indices == IllegalIndices(string, allowlist)
    IN IF illegal_indices = <<>> THEN None ELSE Some(illegal_indices)

----------------------------------------------------------------------------
(* src/util/make_underline_message.rs *)

\* UnicodeWidthChar::width(ch).unwrap_or(1) on the ranges the model uses:
\* combining marks 0 columns, CJK ideographs and emoticons 2, others 1
CharWidth(c) ==
    IF c = 0 THEN 0
    ELSE IF c >= 768 /\ c <= 879 THEN 0
    ELSE IF (c >= 19968 /\ c <= 40959) \/ (c >= 128512 /\ c <= 128591) THEN 2
    ELSE 1

RECURSIVE StrWidth(_)
\* sum of the widths of the chars of s
StrWidth(s) == IF s = <<>> THEN 0 ELSE CharWidth(Head(s)) + StrWidth(Tail(s))

Spaces(n) == [i \in 1..n |-> CH_SPACE]

\* make_underline_message.rs 30-36: (byte offset, start column, width)
ByteToColumn(input) ==
    [i \in 1..Len(input) |->
        <<ByteOffset(input, i), StrWidth(Take(input, i - 1)), CharWidth(input[i])>>]

\* make_underline_message(label, input, bad_indices, character):
\* the message, or a panic when underline_vec is indexed out of bounds
make_underline_message(label, input, bad_indices, character) ==
    LET line1 == label \o <<CH_SPACE>> \o input \o <<CH_NEWLINE>>
        prefix == <<CH_SPACE>> \o Spaces(StrWidth(label))
        byte_to_column == ByteToColumn(input)
        col == StrWidth(input)
        hits == {byte_to_column[i][2] : i \in
                   {j \in 1..Len(input) :
                      \E k \in 1..Len(bad_indices) :
                         byte_to_column[j][1] = bad_indices[k]}}
        underline_vec == [j \in 1..col |->
                            IF (j - 1) \in hits THEN character ELSE CH_SPACE]
    IN IF \E h \in hits : h >= col
       THEN [panic |-> TRUE, text |-> <<>>]
       ELSE [panic |-> FALSE, text |-> line1 \o Spaces(Len(Utf8(prefix))) \o underline_vec]

----------------------------------------------------------------------------
(* src/error/invalid_key_error.rs, src/namespaced_key.rs *)

LABEL_NAMESPACE ==
    <<73, 108, 108, 101, 103, 97, 108, 32, 99, 104, 97, 114, 97, 99, 116, 101,
      114, 115, 32, 105, 110, 32, 110, 97, 109, 101, 115, 112, 97, 99, 101, 58>>

LABEL_PATH ==
    <<73, 108, 108, 101, 103, 97, 108, 32, 99, 104, 97, 114, 97, 99, 116, 101,
      114, 115, 32, 105, 110, 32, 112, 97, 116, 104, 58>>

\* format!("Missing separator `{separator}` in key: `{string}`")
MissingSeparatorMessage(string, separator) ==
    <<77, 105, 115, 115, 105, 110, 103, 32, 115, 101, 112, 97, 114, 97, 116,
      111, 114, 32, 96>> \o <<separator>> \o
    <<96, 32, 105, 110, 32, 107, 101, 121, 58, 32, 96>> \o string \o <<96>>

\* InvalidKeyError::new(namespace, path).with_message(message)
InvalidKeyError(namespace, path, message) ==
    [tag |-> "Err", namespace |-> namespace, path |-> path, message |-> message]

KeyPanic == [tag |-> "Panic"]

\* NamespacedKey::new(namespace, path)
NamespacedKeyNew(namespace, path) ==
    LET cn == check_string(namespace, VALID_NAMESPACE_CHARACTERS)
        cp == check_string(path, VALID_PATH_CHARACTERS)
    IN IF cn.some
       THEN LET m == make_underline_message(LABEL_NAMESPACE, namespace, cn.v, CH_CARET)
            IN IF m.panic THEN KeyPanic ELSE InvalidKeyError(namespace, path, m.text)
       ELSE IF cp.some
       THEN LET m == make_underline_message(LABEL_PATH, path, cp.v, CH_CARET)
            IN IF m.panic THEN KeyPanic ELSE InvalidKeyError(namespace, path, m.text)
       ELSE [tag |-> "Ok", namespace |-> namespace, path |-> path]

\* NamespacedKey::to_string_with_separator(separator)
to_string_with_separator(key, separator) ==
    key.namespace \o <<separator>> \o key.path

\* impl Display for NamespacedKey
NamespacedKeyToString(key) == key.namespace \o <<CH_COLON>> \o key.path

\* a split around the last separator instead of the first (rsplit_once)
SplitOnceLast(string, separator) ==
    IF \E i \in 1..Len(string) : string[i] = separator
    THEN LET i == CHOOSE j \in 1..Len(string) :
                     /\ string[j] = separator
                     /\ \A k \in (j + 1)..Len(string) : string[k] # separator
         IN Some(<<Take(string, i - 1), Drop(string, i)>>)
    ELSE None

\* str::split_once(separator): None, or the texts around the first separator
SplitOnce(string, separator) ==
    LET parts == SplitN2(string, separator)
    IN IF Len(parts) = 2 THEN Some(parts) ELSE None

\* NamespacedKey::from_str_with_separator(string, separator)
from_str_with_separator(string, separator) ==
    LET sp == SplitOnce(string, separator)
    IN IF sp.some THEN NamespacedKeyNew(sp.v[1], sp.v[2])
       ELSE InvalidKeyError(string, <<>>, MissingSeparatorMessage(string, separator))

----------------------------------------------------------------------------
(* State *)

VARIABLES
    interned,   \* the process-wide intern table: handle -> namespace text
    input,      \* function-level: the string the calls take their arguments from
    fn,         \* function-level: the last function called
    args,       \* function-level: its arguments
    ret,        \* function-level: its result
    ordIn,      \* ordering: the two (namespace, value) argument pairs
    ida,        \* ordering: result of the first construction
    idb,        \* ordering: result of the second construction
    ordRes,     \* ordering: the results of cmp and eq
    pc,         \* concurrent: position of each thread inside Identifier::new
    local,      \* concurrent: the locals of each thread's call in flight
    held        \* concurrent: the last result each thread got back

vars == <<interned, input, fn, args, ret, ordIn, ida, idb, ordRes, pc, local, held>>

fnVars == <<input, fn, args, ret>>

ordVars == <<ordIn, ida, idb, ordRes>>

thrVars == <<pc, local, held>>

Threads == 1..NumThreads

NoRet == [tag |-> "None"]

FnIdle == input = <<>> /\ fn = "none" /\ args = <<>> /\ ret = NoRet

OrdIdle == ordIn = <<>> /\ ida = NoRet /\ idb = NoRet /\ ordRes = NoRet

\* local[t] of a thread that is not inside a call; raced records that its
\* last Intern::new ran while another thread was about to intern the same
\* text, absent from the table
Returned(raced) == [tag |-> "returned", raced |-> raced]

ThrIdle ==
    /\ pc = [t \in Threads |-> "idle"]
    /\ local = [t \in Threads |-> Returned(FALSE)]
    /\ held = [t \in Threads |-> NoRet]

----------------------------------------------------------------------------
(* Function-level specification: one caller applies the functions of both  *)
(* implementations to arguments taken from `input`.                        *)

InitFn ==
    /\ interned = <<>>
    /\ input \in StrOver(Chars, MaxLen)
    /\ fn = "none" /\ args = <<>> /\ ret = NoRet
    /\ OrdIdle /\ ThrIdle

\* Identifier::<()>::new(namespace, value), the two texts cut out of input
FnNew(k) ==
    LET r == IdentifierNew(interned, Take(input, k), Drop(input, k), "unit") IN
    /\ fn' = "new"
    /\ args' = <<Take(input, k), Drop(input, k)>>
    /\ ret' = r.res
    /\ interned' = r.table
    /\ UNCHANGED <<input, ordVars, thrVars>>

\* Identifier::<()>::parse(input)
FnParse ==
    LET r == IdentifierParse(interned, input, "unit") IN
    /\ fn' = "parse"
    /\ args' = <<input>>
    /\ ret' = r.res
    /\ interned' = r.table
    /\ UNCHANGED <<input, ordVars, thrVars>>

\* id.to_string() of the Identifier the last call returned
FnToString ==
    /\ fn \in {"new", "parse"}
    /\ ret.tag = "Ok"
    /\ fn' = "to_string"
    /\ args' = <<ret.id, fn>>
    /\ ret' = [tag |-> "Text", text |-> IdentifierToString(interned, ret.id)]
    /\ UNCHANGED <<interned, input, ordVars, thrVars>>

\* Identifier::<()>::parse(text) of the text to_string just produced;
\* args keeps the displayed Identifier and the call that had built it
FnParseDisplayed ==
    /\ fn = "to_string"
    /\ LET r == IdentifierParse(interned, ret.text, "unit") IN
       /\ fn' = "parse_displayed"
       /\ args' = <<ret.text, args[1], args[2]>>
       /\ ret' = r.res
       /\ interned' = r.table
    /\ UNCHANGED <<input, ordVars, thrVars>>

\* id.clone() of the Identifier the last call returned
FnClone ==
    /\ fn \in {"new", "parse", "parse_displayed"}
    /\ ret.tag = "Ok"
    /\ fn' = "clone"
    /\ args' = <<ret.id>>
    /\ ret' = [tag |-> "Ok", id |-> IdentifierClone(ret.id)]
    /\ UNCHANGED <<interned, input, ordVars, thrVars>>

\* id.cast::<kind>() of the Identifier the last call returned
FnCast(kind) ==
    /\ fn \in {"new", "parse", "parse_displayed", "clone"}
    /\ ret.tag = "Ok"
    /\ fn' = "cast"
    /\ args' = <<ret.id, kind>>
    /\ ret' = [tag |-> "Ok", id |-> IdentifierCast(ret.id, kind)]
    /\ UNCHANGED <<interned, input, ordVars, thrVars>>

\* id.erase() of the Identifier cast returned
FnErase ==
    /\ fn = "cast"
    /\ fn' = "erase"
    /\ args' = <<ret.id>>
    /\ ret' = [tag |-> "Ok", id |-> IdentifierErase(ret.id)]
    /\ UNCHANGED <<interned, input, ordVars, thrVars>>

Allowlist(name) ==
    IF name = "namespace" THEN VALID_NAMESPACE_CHARACTERS ELSE VALID_PATH_CHARACTERS

\* check_string(input, allowlist)
FnCheckString(name) ==
    /\ fn' = "check_string"
    /\ args' = <<input, name>>
    /\ ret' = check_string(input, Allowlist(name))
    /\ UNCHANGED <<interned, input, ordVars, thrVars>>

\* NamespacedKey::new(namespace, path), the two texts cut out of input
FnKeyNew(k) ==
    /\ fn' = "key_new"
    /\ args' = <<Take(input, k), Drop(input, k)>>
    /\ ret' = NamespacedKeyNew(Take(input, k), Drop(input, k))
    /\ UNCHANGED <<interned, input, ordVars, thrVars>>

\* NamespacedKey::from_str_with_separator(input, separator)
\* (FromStr and TryFrom<&str> are the call with separator ':')
FnKeyFromStr(separator) ==
    /\ fn' = "key_from_str"
    /\ args' = <<input, separator>>
    /\ ret' = from_str_with_separator(input, separator)
    /\ UNCHANGED <<interned, input, ordVars, thrVars>>

\* key.to_string_with_separator(separator) of the key NamespacedKey::new
\* just returned
FnKeyToString(separator) ==
    /\ fn = "key_new"
    /\ ret.tag = "Ok"
    /\ fn' = "key_to_string"
    /\ args' = <<[namespace |-> ret.namespace, path |-> ret.path], separator>>
    /\ ret' = [tag |-> "Text", text |-> to_string_with_separator(ret, separator)]
    /\ UNCHANGED <<interned, input, ordVars, thrVars>>

\* NamespacedKey::from_str_with_separator(text, separator) of the text
\* to_string_with_separator just produced; args keeps the key
FnKeyFromDisplayed ==
    /\ fn = "key_to_string"
    /\ fn' = "key_from_displayed"
    /\ args' = <<ret.text, args[2], args[1]>>
    /\ ret' = from_str_with_separator(ret.text, args[2])
    /\ UNCHANGED <<interned, input, ordVars, thrVars>>

NextFn ==
    \/ \E k \in 0..Len(input) : FnNew(k)
    \/ FnParse
    \/ FnToString
    \/ FnParseDisplayed
    \/ FnClone
    \/ \E kind \in {"T", "U"} : FnCast(kind)
    \/ FnErase
    \/ \E name \in {"namespace", "path"} : FnCheckString(name)
    \/ \E k \in 0..Len(input) : FnKeyNew(k)
    \/ \E separator \in Chars : FnKeyFromStr(separator)
    \/ \E separator \in Chars : FnKeyToString(separator)
    \/ FnKeyFromDisplayed

SpecFn == InitFn /\ [][NextFn]_vars

----------------------------------------------------------------------------
(* Vocabulary of the properties *)

\* {a-z, 0-9, '_', '-', '.'}
NamespaceAllowed == (97..122) \cup (48..57) \cup {95, 45, 46}

\* the same plus '/'
ValueAllowed == NamespaceAllowed \cup {47}

\* the literal "unspecified"
Unspecified == <<117, 110, 115, 112, 101, 99, 105, 102, 105, 101, 100>>

AllIn(s, allowed) == \A i \in 1..Len(s) : s[i] \in allowed

HasColon(s) == \E i \in 1..Len(s) : s[i] = 58

\* position of the first ':' of s (s has one)
FirstColon(s) == CHOOSE i \in 1..Len(s) : s[i] = 58 /\ \A j \in 1..(i - 1) : s[j] # 58

BeforeColon(s) == SubSeq(s, 1, FirstColon(s) - 1)

AfterColon(s) == SubSeq(s, FirstColon(s) + 1, Len(s))

\* offset of the i-th char of s, in bytes of the encoded string
OffsetInBytes(s, i) == Len(Utf8(SubSeq(s, 1, i - 1)))

\* what a caller sees of a result: Ok with the two texts, or the error
Outcome(table, res) ==
    IF res.tag = "Ok"
    THEN [tag |-> "Ok", namespace |-> InternText(table, res.id.namespace),
          value |-> res.id.value]
    ELSE res

IsOkWith(table, res, namespace, value) ==
    /\ res.tag = "Ok"
    /\ InternText(table, res.id.namespace) = namespace
    /\ res.id.value = value

\* positions are exactly the byte offsets of the chars of s outside allowed,
\* each once, in strictly increasing order
ExactReport(positions, s, allowed) ==
    /\ \A i \in 1..(Len(positions) - 1) : positions[i] < positions[i + 1]
    /\ {positions[i] : i \in 1..Len(positions)} =
         {OffsetInBytes(s, i) : i \in {j \in 1..Len(s) : s[j] \notin allowed}}

----------------------------------------------------------------------------
(* Properties of the function-level specification *)

\* C1 (as claimed): parsing the text to_string gives for an Identifier
\* returned by Identifier::new succeeds and returns an equal Identifier
\* (same namespace handle, same value).
C1_RoundTrip ==
    (fn = "parse_displayed" /\ args[3] = "new")
        => (ret.tag = "Ok" /\ IdentifierEq(ret.id, args[2]))

\* C2 (as claimed): parse splits at the first ':' only and a later ':' is a
\* legal value character: an input "ns:value" with a legal non-empty ns and a
\* value of value characters and ':' parses to exactly (ns, value).
C2_LaterColonsLegal ==
    (/\ fn = "parse" /\ HasColon(input)
     /\ BeforeColon(input) # <<>> /\ AllIn(BeforeColon(input), NamespaceAllowed)
     /\ HasColon(AfterColon(input))
     /\ AllIn(AfterColon(input), ValueAllowed \cup {58}))
        => IsOkWith(interned, ret, BeforeColon(input), AfterColon(input))

\* C2 (amended): parse splits at the first ':' only, every later ':' stays in
\* the value candidate, and there it is an illegal character: the input is
\* rejected, with IllegalCharsInNamespace(before) when the namespace is
\* illegal and otherwise with IllegalCharsInValue(after, bad) where bad holds
\* the byte offset of every later ':'.
C2_LaterColonsRejected ==
    (fn = "parse" /\ HasColon(input) /\ HasColon(AfterColon(input)))
        => IF AllIn(BeforeColon(input), NamespaceAllowed)
           THEN /\ ret.tag = "IllegalCharsInValue"
                /\ ret.text = AfterColon(input)
                /\ \A i \in 1..Len(ret.text) :
                      ret.text[i] = 58 =>
                         \E j \in 1..Len(ret.bad) :
                            ret.bad[j] = <<OffsetInBytes(ret.text, i), 58>>
           ELSE ret.tag = "IllegalCharsInNamespace" /\ ret.text = BeforeColon(input)

\* parse("a:a:") was rejected for the ':' at offset 1 of the value "a:"
C2_Witness ==
    /\ fn = "parse" /\ input = <<97, 58, 97, 58>>
    /\ ret.tag = "IllegalCharsInValue" /\ ret.bad = << <<1, 58>> >>

\* C3 (as claimed): for an input that contains ':', the result of parse is the
\* result of new(text before the first ':', text after it).
C3_ParseIsNewOfHalves ==
    (fn = "parse" /\ HasColon(input))
        => LET r == IdentifierNew(interned, BeforeColon(input), AfterColon(input), "unit")
           IN Outcome(interned, ret) = Outcome(r.table, r.res)

\* C4: for a non-empty x of legal value characters, parse(x) and parse(":" x)
\* succeed with namespace "unspecified" and value x.
C4_DefaultNamespace ==
    fn = "parse" =>
        \A x \in {input, Tail(IF input = <<>> THEN <<0>> ELSE input)} :
            (/\ x # <<>> /\ AllIn(x, ValueAllowed)
             /\ (input = x \/ input = <<58>> \o x))
                => IsOkWith(interned, ret, Unspecified, x)

\* parse(":a/") returned unspecified:a/
C4_Witness ==
    /\ fn = "parse" /\ input = <<58, 97, 47>>
    /\ IsOkWith(interned, ret, Unspecified, <<97, 47>>)

\* C5: the outcome of new(namespace, value) is EmptyValue for an empty value,
\* else IllegalCharsInNamespace for a namespace with a char outside the
\* namespace set, else IllegalCharsInValue for a value with a char outside the
\* value set, else success; parse("namespace:") is EmptyValue.
C5_OutcomeOrder ==
    /\ fn = "new" =>
          ret.tag = IF args[2] = <<>> THEN "EmptyValue"
                    ELSE IF ~AllIn(args[1], NamespaceAllowed) THEN "IllegalCharsInNamespace"
                    ELSE IF ~AllIn(args[2], ValueAllowed) THEN "IllegalCharsInValue"
                    ELSE "Ok"
    /\ (fn = "parse" /\ HasColon(input) /\ AfterColon(input) = <<>>)
          => ret.tag = "EmptyValue"

\* new("/", "") returned EmptyValue although the namespace is illegal
C5_Witness ==
    fn = "new" /\ args = << <<47>>, <<>> >> /\ ret.tag = "EmptyValue"

\* C6: check_string and the two IllegalChars errors of Identifier::new report
\* exactly the byte offsets of the chars outside the allowlist, each once, in
\* increasing order; check_string returns None exactly when there is none.
C6_ReportComplete ==
    /\ fn = "check_string" =>
          LET allowed == IF args[2] = "namespace" THEN NamespaceAllowed ELSE ValueAllowed
          IN IF ret.some
             THEN ret.v # <<>> /\ ExactReport(ret.v, args[1], allowed)
             ELSE AllIn(args[1], allowed)
    /\ (fn = "new" /\ ret.tag = "IllegalCharsInNamespace") =>
          /\ ret.bad # <<>>
          /\ ExactReport([i \in 1..Len(ret.bad) |-> ret.bad[i][1]], args[1], NamespaceAllowed)
    /\ (fn = "new" /\ ret.tag = "IllegalCharsInValue") =>
          /\ ret.bad # <<>>
          /\ ExactReport([i \in 1..Len(ret.bad) |-> ret.bad[i][1]], args[2], ValueAllowed)

\* a two-byte char moved the next report to byte offset 3, not char index 2
C6_Witness ==
    /\ fn = "check_string" /\ args[1] = <<97, 769, 58>>
    /\ ret = Some(<<1, 3>>)

----------------------------------------------------------------------------
(* Ordering specification: two Identifiers are constructed from the         *)
(* argument pairs drawn in Init, in either order, and compared.            *)

InitOrd ==
    /\ interned = <<>>
    /\ ordIn \in [1..4 -> StrOver(OrdChars, MaxOrdLen)]
    /\ ida = NoRet /\ idb = NoRet /\ ordRes = NoRet
    /\ FnIdle /\ ThrIdle

\* let a = Identifier::<T>::new(ordIn[1], ordIn[2])
OrdNewA ==
    /\ ida = NoRet
    /\ LET r == IdentifierNew(interned, ordIn[1], ordIn[2], "T") IN
       ida' = r.res /\ interned' = r.table
    /\ UNCHANGED <<ordIn, idb, ordRes, fnVars, thrVars>>

\* let b = Identifier::<T>::new(ordIn[3], ordIn[4])
OrdNewB ==
    /\ idb = NoRet
    /\ LET r == IdentifierNew(interned, ordIn[3], ordIn[4], "T") IN
       idb' = r.res /\ interned' = r.table
    /\ UNCHANGED <<ordIn, ida, ordRes, fnVars, thrVars>>

\* a.erase(), b.erase()
OrdErase ==
    /\ ida.tag = "Ok" /\ idb.tag = "Ok"
    /\ ida.id.kind # "unit"
    /\ ida' = [ida EXCEPT !.id = IdentifierErase(ida.id)]
    /\ idb' = [idb EXCEPT !.id = IdentifierErase(idb.id)]
    /\ ordRes' = NoRet
    /\ UNCHANGED <<interned, ordIn, fnVars, thrVars>>

\* a.cmp(&b) and a == b
OrdCmp ==
    /\ ida.tag = "Ok" /\ idb.tag = "Ok"
    /\ ordRes' = [tag |-> "Cmp",
                  cmp |-> IdentifierCmp(interned, ida.id, idb.id),
                  eq |-> IdentifierEq(ida.id, idb.id)]
    /\ UNCHANGED <<interned, ordIn, ida, idb, fnVars, thrVars>>

NextOrd == OrdNewA \/ OrdNewB \/ OrdErase \/ OrdCmp

SpecOrd == InitOrd /\ [][NextOrd]_vars

RECURSIVE LexCmp(_, _)
\* lexicographic comparison of two texts, char by char
LexCmp(x, y) ==
    IF x = <<>> /\ y = <<>> THEN "Equal"
    ELSE IF x = <<>> THEN "Less"
    ELSE IF y = <<>> THEN "Greater"
    ELSE IF x[1] < y[1] THEN "Less"
    ELSE IF x[1] > y[1] THEN "Greater"
    ELSE LexCmp(Tail(x), Tail(y))

\* the namespace text an Identifier built from namespace argument ns carries
NamespaceTextOf(ns) == IF ns = <<>> THEN Unspecified ELSE ns

\* C8: a.cmp(b) is the lexicographic comparison of the namespace texts and,
\* when these are equal, of the value texts, whatever the kind; it is Equal
\* exactly when a == b, i.e. when both texts are equal.
C8_Ordering ==
    ordRes.tag = "Cmp" =>
        LET byNs == LexCmp(NamespaceTextOf(ordIn[1]), NamespaceTextOf(ordIn[3]))
            byValue == LexCmp(ordIn[2], ordIn[4])
        IN /\ ordRes.cmp = IF byNs # "Equal" THEN byNs ELSE byValue
           /\ (ordRes.cmp = "Equal") <=> ordRes.eq
           /\ ordRes.eq <=> (/\ NamespaceTextOf(ordIn[1]) = NamespaceTextOf(ordIn[3])
                             /\ ordIn[2] = ordIn[4])

\* "b:a" was interned before "a:b", erased, and compares Greater
C8_Witness ==
    /\ ordIn = << <<98>>, <<97>>, <<97>>, <<98>> >>
    /\ ida.tag = "Ok" /\ idb.tag = "Ok"
    /\ ida.id.namespace = 1 /\ idb.id.namespace = 2
    /\ ida.id.kind = "unit"
    /\ ordRes.tag = "Cmp" /\ ordRes.cmp = "Greater" /\ ~ordRes.eq

----------------------------------------------------------------------------
(* Concurrent specification: threads construct, clone and cast Identifiers *)
(* over the one intern table.  Validation reads only the thread's own      *)
(* arguments, so a call takes two steps: the call with its validation, and *)
(* the Intern::new that reads and extends the shared table.                *)

\* namespace and value arguments of new in the concurrent specification
ConcNamespaces == {<<>>, <<97>>, <<98>>, <<47>>}

ConcValues == {<<>>, <<97>>, <<769>>}

\* inputs of parse: "a", ":a", "a:a", "b:a", "a:", "/:a"
ConcInputs ==
    {<<97>>, <<58, 97>>, <<97, 58, 97>>, <<98, 58, 97>>, <<97, 58>>, <<47, 58, 97>>}

Init ==
    /\ interned = <<>>
    /\ ThrIdle
    /\ FnIdle /\ OrdIdle

\* lib.rs 133-162 on thread t: an error returns at once, valid arguments
\* take the thread to Intern::new
Enter(t, op, namespace, value) ==
    LET v == Validate(namespace, value) IN
    IF v.tag = "Valid"
    THEN /\ pc' = [pc EXCEPT ![t] = "intern"]
         /\ local' = [local EXCEPT ![t] = [tag |-> op, ns |-> v.ns, value |-> v.value]]
         /\ held' = [held EXCEPT ![t] = NoRet]
    ELSE /\ pc' = pc
         /\ local' = [local EXCEPT ![t] = Returned(FALSE)]
         /\ held' = [held EXCEPT ![t] = v]

\* thread t calls Identifier::<T>::new(namespace, value)
CallNew(t, namespace, value) ==
    /\ pc[t] = "idle"
    /\ Enter(t, "new", namespace, value)
    /\ UNCHANGED <<interned, fnVars, ordVars>>

\* thread t calls Identifier::<T>::parse(s) (from_str and try_from are
\* this call)
CallParse(t, s) ==
    /\ pc[t] = "idle"
    /\ Enter(t, "parse", ParseCandidates(s)[1], ParseCandidates(s)[2])
    /\ UNCHANGED <<interned, fnVars, ordVars>>

\* lib.rs 164-168 on thread t: Intern::new(ns) and the return of the call
StepIntern(t) ==
    /\ pc[t] = "intern"
    /\ LET i == InternNew(interned, local[t].ns)
           raced == /\ \A h \in DOMAIN interned : interned[h] # local[t].ns
                    /\ \E u \in Threads \ {t} :
                          pc[u] = "intern" /\ local[u].ns = local[t].ns
       IN /\ interned' = i.table
          /\ held' = [held EXCEPT ![t] =
                        [tag |-> "Ok", id |-> MkIdentifier(i.handle, local[t].value, "T")]]
          /\ local' = [local EXCEPT ![t] = Returned(raced)]
    /\ pc' = [pc EXCEPT ![t] = "idle"]
    /\ UNCHANGED <<fnVars, ordVars>>

\* thread t clones the Identifier thread u holds
Clone(t, u) ==
    /\ pc[t] = "idle"
    /\ held[u].tag = "Ok"
    /\ held' = [held EXCEPT ![t] = [tag |-> "Ok", id |-> IdentifierClone(held[u].id)]]
    /\ local' = [local EXCEPT ![t] = Returned(FALSE)]
    /\ UNCHANGED <<interned, pc, fnVars, ordVars>>

\* thread t casts the Identifier it holds to kind
Cast(t, kind) ==
    /\ pc[t] = "idle"
    /\ held[t].tag = "Ok"
    /\ held[t].id.kind # kind
    /\ held' = [held EXCEPT ![t] = [tag |-> "Ok", id |-> IdentifierCast(held[t].id, kind)]]
    /\ UNCHANGED <<interned, pc, local, fnVars, ordVars>>

\* thread t erases the kind of the Identifier it holds
Erase(t) ==
    /\ pc[t] = "idle"
    /\ held[t].tag = "Ok"
    /\ held[t].id.kind # "unit"
    /\ held' = [held EXCEPT ![t] = [tag |-> "Ok", id |-> IdentifierErase(held[t].id)]]
    /\ UNCHANGED <<interned, pc, local, fnVars, ordVars>>

Next ==
    \/ \E t \in Threads, namespace \in ConcNamespaces, value \in ConcValues :
          CallNew(t, namespace, value)
    \/ \E t \in Threads, s \in ConcInputs : CallParse(t, s)
    \/ \E t \in Threads : StepIntern(t)
    \/ \E t \in Threads, u \in Threads : Clone(t, u)
    \/ \E t \in Threads, kind \in {"T", "U"} : Cast(t, kind)
    \/ \E t \in Threads : Erase(t)

Spec == Init /\ [][Next]_vars

\* C7: every Identifier a thread holds - returned by new or parse (from_str,
\* try_from), cloned, cast or erased - has a non-empty value and a non-empty
\* namespace, the namespace made of namespace characters and the value of
\* value characters, also when the namespace is the substituted default.
C7_Validity ==
    \A t \in Threads :
        held[t].tag = "Ok" =>
            /\ held[t].id.value # <<>>
            /\ InternText(interned, held[t].id.namespace) # <<>>
            /\ AllIn(InternText(interned, held[t].id.namespace), NamespaceAllowed)
            /\ AllIn(held[t].id.value, ValueAllowed)

\* a thread holds a cast Identifier whose namespace is the default
C7_Witness ==
    \E t \in Threads :
        /\ held[t].tag = "Ok"
        /\ held[t].id.kind = "U"
        /\ InternText(interned, held[t].id.namespace) = Unspecified

\* C10: in every interleaving, two Identifiers held by the threads have the
\* same intern handle exactly when their namespace texts are equal.
C10_OneHandlePerNamespace ==
    \A t \in Threads, u \in Threads :
        (held[t].tag = "Ok" /\ held[u].tag = "Ok") =>
            ((InternText(interned, held[t].id.namespace)
                 = InternText(interned, held[u].id.namespace))
               <=> held[t].id.namespace = held[u].id.namespace)

\* two threads interned the same absent text at the same time and now hold
\* one handle, while the table also holds another namespace
C10_Witness ==
    \E t \in Threads, u \in Threads :
        /\ t # u
        /\ held[t].tag = "Ok" /\ held[u].tag = "Ok"
        /\ held[t].id.namespace = held[u].id.namespace
        /\ local[t] = Returned(TRUE)
        /\ pc[u] = "idle"
        /\ Len(interned) >= 2

----------------------------------------------------------------------------
(* Diagnostic specification: make_underline_message on a label, an input,  *)
(* a list of byte offsets and a marker drawn in Init, and                  *)
(* NamespacedKey::new on the same two strings.                             *)

\* 'a' (one column), U+0301 (no column, two bytes), U+1F60A (two columns,
\* four bytes)
UlChars == {97, 769, 128522}

UlLabels == StrOver(UlChars, 1)

\* '^' and '*'
UlMarkers == {94, 42}

InitUl ==
    /\ interned = <<>>
    /\ input \in StrOver(UlChars, MaxUlLen)
    /\ args \in {<<label, input, bad, marker>> :
                    label \in UlLabels,
                    bad \in StrOver(0..Len(Utf8(input)), MaxBad),
                    marker \in UlMarkers}
    /\ fn = "none" /\ ret = NoRet
    /\ OrdIdle /\ ThrIdle

\* make_underline_message(label, input, bad_indices, character)
UlUnderline ==
    /\ fn' = "make_underline_message"
    /\ ret' = make_underline_message(args[1], args[2], args[3], args[4])
    /\ UNCHANGED <<interned, input, args, ordVars, thrVars>>

\* NamespacedKey::new(input, label)
UlKeyNew ==
    /\ fn' = "key_new"
    /\ ret' = NamespacedKeyNew(args[2], args[1])
    /\ UNCHANGED <<interned, input, args, ordVars, thrVars>>

NextUl == UlUnderline \/ UlKeyNew

SpecUl == InitUl /\ [][NextUl]_vars

\* the second line of a two-line message made from label and text
SecondLine(message, label, text) ==
    SubSeq(message, Len(label) + Len(text) + 3, Len(message))

\* the columns (0-based, within the second line) the markers belong at:
\* width(label) + 1 + the widths of the chars before each flagged char
MarkerColumns(label, text, bad) ==
    {StrWidth(label) + 1 + StrWidth(SubSeq(text, 1, i - 1)) :
        i \in {j \in 1..Len(text) :
                 \E k \in 1..Len(bad) : bad[k] = OffsetInBytes(text, j)}}

\* C11 (as claimed): make_underline_message returns a string for every label,
\* input, offsets and marker, with the marker of every matching offset inside
\* the underline line; NamespacedKey::new returns Ok or Err for every pair.
C11_NeverFaults ==
    /\ fn = "make_underline_message" =>
          /\ ~ret.panic
          /\ LET line2 == SecondLine(ret.text, args[1], args[2]) IN
             \A c \in MarkerColumns(args[1], args[2], args[3]) :
                c + 1 \in 1..Len(line2) /\ line2[c + 1] = args[4]
    /\ fn = "key_new" => ret.tag \in {"Ok", "Err"}

\* C12 (as claimed): the second line of make_underline_message is
\* width(label) + 1 + width(input) columns long, with the marker exactly at
\* the marker columns and a space at every other column.
C12_Alignment ==
    fn = "make_underline_message" =>
        /\ ~ret.panic
        /\ LET line2 == SecondLine(ret.text, args[1], args[2])
               cols == MarkerColumns(args[1], args[2], args[3])
           IN /\ Len(line2) = StrWidth(args[1]) + 1 + StrWidth(args[2])
              /\ \A c \in cols : c + 1 \in 1..Len(line2)
              /\ \A p \in 1..Len(line2) :
                    line2[p] = IF (p - 1) \in cols THEN args[4] ELSE CH_SPACE

----------------------------------------------------------------------------
(* Effect of the calls on the intern table (function-level specification) *)

\* the strings in an intern table
Texts(table) == {table[h] : h \in DOMAIN table}

\* C13: a call never removes a string from the intern table; a successful
\* construction (new, parse) leaves the strings of before plus the namespace
\* of the Identifier it returns; a failed construction and every clone, cast,
\* erase and other call leave the set of strings unchanged.
C13_TableEffect ==
    [][/\ Texts(interned) \subseteq Texts(interned')
       /\ IF fn' \in {"new", "parse", "parse_displayed"} /\ ret'.tag = "Ok"
          THEN Texts(interned') =
                  Texts(interned) \cup {InternText(interned', ret'.id.namespace)}
          ELSE Texts(interned') = Texts(interned)]_vars

\* new("aa", "") failed with EmptyValue while the table held "a": "aa" was
\* not interned
C13_Witness ==
    /\ fn = "new" /\ args = << <<97, 97>>, <<>> >>
    /\ ret.tag = "EmptyValue"
    /\ interned = << <<97>> >>

----------------------------------------------------------------------------
(* Round trip of NamespacedKey with a caller-supplied separator *)

\* C14 (as claimed): for every key k returned by NamespacedKey::new and every
\* separator c, from_str_with_separator(k.to_string_with_separator(c), c) is
\* Ok of a key equal to k; with c = ':' the string is k.to_string().
C14_RoundTripAnySeparator ==
    /\ fn = "key_from_displayed" =>
          /\ ret.tag = "Ok"
          /\ ret.namespace = args[3].namespace /\ ret.path = args[3].path
    /\ (fn = "key_to_string" /\ args[2] = 58) =>
          ret.text = NamespacedKeyToString(args[1])

\* C14 (amended): the same for every separator c that does not occur in the
\* namespace of k (every c outside the namespace allowlist, such as ':' or
\* '/', qualifies for every key).
C14_RoundTripSeparatorNotInNamespace ==
    /\ (/\ fn = "key_from_displayed"
        /\ \A i \in 1..Len(args[3].namespace) : args[3].namespace[i] # args[2]) =>
          /\ ret.tag = "Ok"
          /\ ret.namespace = args[3].namespace /\ ret.path = args[3].path
    /\ (fn = "key_to_string" /\ args[2] = 58) =>
          ret.text = NamespacedKeyToString(args[1])

\* the key a:/a went through "a//a" with separator '/' and came back equal
C14_Witness ==
    /\ fn = "key_from_displayed"
    /\ args = << <<97, 47, 47, 97>>, 47, [namespace |-> <<97>>, path |-> <<47, 97>>] >>
    /\ ret.tag = "Ok" /\ ret.namespace = <<97>> /\ ret.path = <<47, 97>>

====
